---- MODULE Spec2Model ----
(***************************************************************************)
(* Subscription ledger and role reconciliation of the Self-defense         *)
(* repository.  The repository holds several independently deployable      *)
(* drafts of the same system; a behaviour of this module is a run of one   *)
(* of them, selected by the variable `program`:                            *)
(*                                                                         *)
(*   "stripe_webhook"  src/stripe_webhook.py : webhook handler that        *)
(*                     upserts the subscriptions table and grants roles,   *)
(*                     plus expiration_loop                                *)
(*   "tasks_runner"    src/tasks_runner.py   : sync_roles sweep            *)
(*   "main"            src/main.py           : webhook handler that        *)
(*                     writes the payments table, plus the RoleWorker      *)
(*   "worker"          src/main.py           : the RoleWorker alone, on a  *)
(*                     payments table that holds a backlog                 *)
(*   "upsert_subscription"  src/stripe_webhook.py : two database sessions  *)
(*                     running upsert_subscription statement by statement  *)
(*   "commands"        src/Commands.py, src/Tasks_runner.py, src/dp.py :   *)
(*                     the /start and /set_tier commands, the users and    *)
(*                     subscriptions tables, and the daily expiry_sweep    *)
(*                                                                         *)
(* Time is counted in whole days.  Every `await` of the source is a        *)
(* separate step, so that the other coroutines of the event loop can run   *)
(* in between; code between two awaits is one atomic step.  A call to the  *)
(* chat server or the payment provider either succeeds or raises.          *)
(***************************************************************************)
EXTENDS Integers, FiniteSets, Sequences, TLC

VARIABLES
    program,    \* which draft of the repository is running
    now,        \* wall clock, in days
    inGuild,    \* members currently in the guild
    roles,      \* roles[m]: the roles member m holds in the guild
    delivered,  \* number of webhook requests received so far
    subs,       \* subscriptions table: subs[m] is m's row or NoRow
    applied,    \* history: ids of the events for which upsert_subscription ran
    hpc,        \* hpc[h]: position of webhook request h in stripe_webhook
    hreq,       \* hreq[h]: the request h is handling
    hsnap,      \* hsnap[h]: member.roles of the Member object h fetched
    hresp,      \* hresp[h]: the last response request slot h produced
    epc,        \* position of expiration_loop
    expired,    \* expiration_loop: the rows get_expired_subscriptions returned
    equeue,     \* expiration_loop: members of `expired` not yet iterated
    ecur,       \* expiration_loop: discord_id of the current iteration
    eremove,    \* expiration_loop: roles_to_remove of the current iteration
    efailed,    \* history: members whose lookup raised in the current tick
    spc,        \* position of sync_roles ("dead": ended by an exception)
    snow,       \* sync_roles: `now` of the current pass
    srows,      \* sync_roles: `rows` of the current pass, by discord_id
    squeue,     \* sync_roles: rows of the pass not yet iterated
    scur,       \* sync_roles: discord_id of the current iteration
    env,        \* main.py: the environment variables of the deployment
    payments,   \* main.py: payments table, payments[session_id] or NoPay
    wpc,        \* main.py: position of RoleWorker.worker_loop
    wrows,      \* main.py: rows of the worker's current poll still to process
    granted,    \* main.py, history: granted[s], add_roles calls that succeeded
                \* for the row of session s
    started,    \* number of loop tasks the start event has created so far
    subscriptions, \* the table as the database holds it: a sequence of rows
    cpc,        \* cpc[c]: position of database session c in upsert_subscription
    cargs,      \* cargs[c]: the arguments of the call session c is running
    cnow,       \* cnow[c]: `now` of the call
    cread,      \* cread[c]: the row the call's SELECT fetched, or NoRow
    cret,       \* cret[c]: how the last call of session c ended
    ccalls,     \* number of upsert_subscription calls begun so far
    cpaid,      \* history: cpaid[m], days added by the calls that returned
                \* since m's record was last cleared
    wlast,      \* main.py, history: sessions of the rows the worker's last
                \* poll returned
    users,      \* dp.py: users table, users[m] is m's tier or NoUser
    bcalls,     \* Commands.py / dp.py: number of commands and calls so far
    bot,        \* bot[t]: position of task t (the /set_tier command, the
                \* daily expiry_sweep) and the apply_tier_roles call it runs
    bqueue,     \* Tasks_runner.py expiry_sweep: members of the rows still
                \* to iterate whose days_left is <= 0
    badmin      \* history: members an admin set to premium or elite with
                \* /set_tier when no expiry still to come was on record,
                \* and for whom no expiry was recorded since

vars == <<program, now, inGuild, roles, delivered, subs, applied,
          hpc, hreq, hsnap, hresp, epc, expired, equeue, ecur, eremove, efailed,
          spc, snow, srows, squeue, scur, env, payments, wpc, wrows,
          granted, started, subscriptions, cpc, cargs, cnow, cread, cret, ccalls, cpaid,
          wlast, users, bcalls, bot, bqueue, badmin>>

----------------------------------------------------------------------------
(* Bounds of the model *)

MaxNow == 31
MaxDeliveries == 2

(* discord ids of the members, and the webhook requests that can be in     *)
(* flight at once.                                                         *)
Members == {1, 2}
Handlers == {1, 2}

(* The clock is observed after steps of 10 and 21 days: days 0, 10, 20,    *)
(* 21, 30 and 31 are reached.                                              *)
ClockSteps == {10, 21}

NoRow == [tier |-> "none", expires_at |-> -1]
NoId == 0
NoReq == [id |-> "none", verify |-> "none"]
NoResp == [status |-> 0, body |-> "none"]

----------------------------------------------------------------------------
(* stripe_webhook.py: configuration *)

(* Role ids are kept as strings: they exceed the checker's integers. *)
ROLE_VERIFIED == "1476479538807439404"
ROLE_RECRUIT == "1476727580387442698"
ROLE_ELITE == "1475724667493810186"
ROLE_FIGHTER == "1476504028576743520"

TIER_ROLE_IDS == {ROLE_RECRUIT, ROLE_ELITE, ROLE_FIGHTER}

AllRoles == TIER_ROLE_IDS \cup {ROLE_VERIFIED}

PRICE_MAP ==
    [p \in {"price_1T50gsB9kGqOyQaKqsChMsDT",
            "price_1T50fgB9kGqOyQaKgkZfH2XZ",
            "price_1T50dWB9kGqOyQaKddLCSgbC"} |->
        CASE p = "price_1T50gsB9kGqOyQaKqsChMsDT" ->
                [tier |-> "recruit", days |-> 14, role |-> ROLE_RECRUIT]
          [] p = "price_1T50fgB9kGqOyQaKgkZfH2XZ" ->
                [tier |-> "elite", days |-> 30, role |-> ROLE_ELITE]
          [] OTHER ->
                [tier |-> "fighter", days |-> 60, role |-> ROLE_FIGHTER]]

(* The events the payment provider may deliver, by event/session id.  A    *)
(* redelivery carries the same id and the same content.                    *)
CHECKOUT == "checkout.session.completed"

Events ==
    [id \in {"cs_1", "cs_2", "cs_3", "cs_4", "cs_5", "cs_6", "evt_7"} |->
        CASE id = "cs_1" -> [type |-> CHECKOUT, discord_id |-> 1,
                             price |-> "price_1T50fgB9kGqOyQaKgkZfH2XZ"]
          [] id = "cs_2" -> [type |-> CHECKOUT, discord_id |-> 1,
                             price |-> "price_1T50fgB9kGqOyQaKgkZfH2XZ"]
          [] id = "cs_3" -> [type |-> CHECKOUT, discord_id |-> 1,
                             price |-> "price_1T50dWB9kGqOyQaKddLCSgbC"]
          [] id = "cs_4" -> [type |-> CHECKOUT, discord_id |-> 2,
                             price |-> "price_1T50gsB9kGqOyQaKqsChMsDT"]
          [] id = "cs_5" -> [type |-> CHECKOUT, discord_id |-> NoId,
                             price |-> "price_1T50fgB9kGqOyQaKgkZfH2XZ"]
          [] id = "cs_6" -> [type |-> CHECKOUT, discord_id |-> 2,
                             price |-> "price_unknown"]
          [] OTHER       -> [type |-> "payment_intent.succeeded", discord_id |-> 1,
                             price |-> "price_1T50fgB9kGqOyQaKgkZfH2XZ"]]

EventIds == DOMAIN Events

(* Outcome of stripe.Webhook.construct_event on a request. *)
VerifyOutcomes == {"ok", "ValueError", "SignatureVerificationError"}

(* When construct_event raises, the handler never reads the event: a       *)
(* checkout and an event of another type stand for every rejected payload. *)
(* (main.py without a webhook secret skips the verification and treats the *)
(* request like a verified one.)                                           *)
UnverifiedIds == {"cs_1", "evt_7"}

----------------------------------------------------------------------------
(* stripe_webhook.py: database *)

(* A renewal base that always starts from the purchase time. *)
RenewalBase_AlwaysNow(current_expires, t) == t

(* A renewal base that always starts from the stored expiry. *)
RenewalBase_AlwaysStored(current_expires, t) == current_expires

(* base = current_expires if current_expires > now else now *)
RenewalBase(current_expires, t) ==
    IF current_expires > t THEN current_expires ELSE t

(* An upsert that extends an existing record without touching its tier. *)
upsert_subscription_KeepsTier(table, discord_id, tier, add_days, t) ==
    IF table[discord_id] # NoRow
    THEN [table EXCEPT ![discord_id].expires_at =
            (IF @ > t THEN @ ELSE t) + add_days]
    ELSE [table EXCEPT ![discord_id] =
            [tier |-> tier, expires_at |-> t + add_days]]

(* The subscriptions table after upsert_subscription(discord_id, tier, add_days). *)
upsert_subscription(table, discord_id, tier, add_days, t) ==
    IF table[discord_id] # NoRow
    THEN [table EXCEPT ![discord_id] =
            [tier |-> tier,
             expires_at |-> RenewalBase(table[discord_id].expires_at, t) + add_days]]
    ELSE [table EXCEPT ![discord_id] =
            [tier |-> tier, expires_at |-> t + add_days]]

(* SELECT ... WHERE expires_at <= now *)
get_expired_subscriptions(table, t) ==
    {m \in Members : table[m] # NoRow /\ table[m].expires_at <= t}

clear_subscription(table, discord_id) ==
    [table EXCEPT ![discord_id] = NoRow]

----------------------------------------------------------------------------
(* stripe_webhook.py: role helpers *)

(* guild.get_role(rid) is not None: the roles that exist in the guild. *)
GuildRoles == AllRoles

(* A set_roles_for_tier that removes no other tier role. *)
RolesToRemoveForTier_None(snap, tier_role_id) == {}

(* A remove_all_tier_roles that takes the verified badge as well. *)
RolesToRemoveAll_WithBadge(snap) ==
    {rid \in TIER_ROLE_IDS \cup {ROLE_VERIFIED} : rid \in snap}

(* set_roles_for_tier: roles_to_remove, computed from the fetched member. *)
RolesToRemoveForTier(snap, tier_role_id) ==
    {rid \in TIER_ROLE_IDS : rid # tier_role_id /\ rid \in GuildRoles /\ rid \in snap}

(* remove_all_tier_roles: roles_to_remove. *)
RolesToRemoveAll(snap) ==
    {rid \in TIER_ROLE_IDS : rid \in GuildRoles /\ rid \in snap}

(* set_roles_for_tier from line 164 on: the next await, or the end. *)
StepAfterRemove(snap, tier_role_id) ==
    IF tier_role_id \in GuildRoles /\ tier_role_id \notin snap
    THEN "add_tier" ELSE "done"

(* set_roles_for_tier from line 152 on. *)
StepAfterVerified(snap, tier_role_id) ==
    IF RolesToRemoveForTier(snap, tier_role_id) # {}
    THEN "remove_roles" ELSE StepAfterRemove(snap, tier_role_id)

(* set_roles_for_tier from its first line. *)
StepOfSetRoles(snap, tier_role_id) ==
    IF ROLE_VERIFIED \in GuildRoles /\ ROLE_VERIFIED \notin snap
    THEN "add_verified" ELSE StepAfterVerified(snap, tier_role_id)

(* member.remove_roles removes the roles one request at a time: when  *)
(* it raises, any proper subset of them may already be gone.               *)
PartlyRemoved(rs) == (SUBSET rs) \ {rs}

----------------------------------------------------------------------------
(* stripe_webhook.py: the webhook handler *)

HandlerVars == <<hpc, hreq, hsnap, hresp>>
SweepVars == <<epc, expired, equeue, ecur, eremove, efailed>>
SyncVars == <<spc, snow, srows, squeue, scur>>
MainVars == <<env, payments, wpc, wrows, wlast>>
CallVars == <<subscriptions, cpc, cargs, cnow, cread, cret, ccalls, cpaid>>
BotVars == <<users, bcalls, bot, bqueue, badmin>>

(* The handler returns (or raises HTTPException / an unhandled error). *)
Respond(h, status, body) ==
    /\ hpc' = [hpc EXCEPT ![h] = "idle"]
    /\ hresp' = [hresp EXCEPT ![h] = [status |-> status, body |-> body]]
    /\ hreq' = [hreq EXCEPT ![h] = NoReq]
    /\ hsnap' = [hsnap EXCEPT ![h] = {}]

(* The handler goes on to its next await, or returns when none is left. *)
Continue(h, step, snap) ==
    IF step = "done"
    THEN Respond(h, 200, "received")
    ELSE /\ hpc' = [hpc EXCEPT ![h] = step]
         /\ hsnap' = [hsnap EXCEPT ![h] = snap]
         /\ UNCHANGED <<hreq, hresp>>

ReqEvent(h) == Events[hreq[h].id]
ReqMember(h) == ReqEvent(h).discord_id
ReqPlan(h) == PRICE_MAP[ReqEvent(h).price]

(* Lines 13-25: the module raises RuntimeError when it is loaded with     *)
(* DATABASE_URL (or another required variable) unset; the service and its  *)
(* expiration_loop run only if it loaded.                                  *)
ServiceRuns == program = "stripe_webhook" /\ env.database_url

(* payload = await request.body().  A request takes the first free slot. *)
Receive(h) ==
    /\ ServiceRuns
    /\ hpc[h] = "idle"
    /\ \A other \in Handlers : other < h => hpc[other] # "idle"
    /\ delivered < MaxDeliveries
    /\ \E id \in EventIds, v \in VerifyOutcomes :
          /\ v # "ok" => id \in UnverifiedIds
          /\ hreq' = [hreq EXCEPT ![h] = [id |-> id, verify |-> v]]
    /\ hpc' = [hpc EXCEPT ![h] = "recv"]
    /\ hresp' = [hresp EXCEPT ![h] = NoResp]
    /\ delivered' = delivered + 1
    /\ UNCHANGED <<CallVars, BotVars, started, granted,
                   MainVars, SyncVars, program, now, inGuild, roles, subs, applied, hsnap, SweepVars>>

(* An intake that rejects an event without metadata.discord_id like a     *)
(* payload it could not parse.                                             *)
Intake_RejectsMissingId(verify, e) ==
    IF verify = "ValueError" THEN "Invalid payload"
    ELSE IF verify = "SignatureVerificationError" THEN "Invalid signature"
    ELSE IF e.type # "checkout.session.completed" THEN "ignored"
    ELSE IF e.discord_id = NoId THEN "Invalid payload"
    ELSE "line_items"

(* An intake that looks at the event type before it verifies the           *)
(* signature.                                                              *)
Intake_TypeBeforeSignature(verify, e) ==
    IF e.type # "checkout.session.completed" THEN "ignored"
    ELSE IF verify = "ValueError" THEN "Invalid payload"
    ELSE IF verify = "SignatureVerificationError" THEN "Invalid signature"
    ELSE IF e.discord_id = NoId THEN "Missing metadata.discord_id"
    ELSE "line_items"

(* Lines 222-237: what the handler decides before it asks the provider    *)
(* for the line items.  construct_event comes first and its two errors    *)
(* end the request; then the event type, then metadata.discord_id.         *)
Intake(verify, e) ==
    IF verify = "ValueError" THEN "Invalid payload"
    ELSE IF verify = "SignatureVerificationError" THEN "Invalid signature"
    ELSE IF e.type # CHECKOUT THEN "ignored"
    ELSE IF e.discord_id = NoId THEN "Missing metadata.discord_id"
    ELSE "line_items"

(* The HTTP status of the handler's early returns: HTTPException(400) for  *)
(* the two verification errors, a plain dict (200) otherwise.              *)
IntakeStatus(outcome) ==
    IF outcome \in {"Invalid payload", "Invalid signature"} THEN 400 ELSE 200

(* Lines 222-255: from construct_event to the await of fetch_member. *)
Handle(h) ==
    /\ ServiceRuns
    /\ hpc[h] = "recv"
    /\ UNCHANGED <<CallVars, BotVars, started, granted,
                   MainVars, SyncVars, program, now, inGuild, roles, delivered, SweepVars>>
    /\ LET outcome == Intake(hreq[h].verify, ReqEvent(h)) IN
       IF outcome # "line_items"
       THEN Respond(h, IntakeStatus(outcome), outcome) /\ UNCHANGED <<subs, applied>>
       ELSE \/ \* stripe.checkout.Session.list_line_items raises
               Respond(h, 200, "Could not read line_items/price")
               /\ UNCHANGED <<subs, applied>>
            \/ /\ ReqEvent(h).price \notin DOMAIN PRICE_MAP
               /\ Respond(h, 200, "Unknown price_id")
               /\ UNCHANGED <<subs, applied>>
            \/ /\ ReqEvent(h).price \in DOMAIN PRICE_MAP
               /\ subs' = upsert_subscription(subs, ReqMember(h), ReqPlan(h).tier,
                                              ReqPlan(h).days, now)
               /\ applied' = applied \cup {hreq[h].id}
               /\ hpc' = [hpc EXCEPT ![h] = "fetch_member"]
               /\ UNCHANGED <<hreq, hsnap, hresp>>

(* member = await fetch_member(int(discord_id)), then set_roles_for_tier   *)
(* up to its first await.  fetch_member returns None on any exception.     *)
HandlerFetchMember(h) ==
    /\ ServiceRuns
    /\ hpc[h] = "fetch_member"
    /\ UNCHANGED <<CallVars, BotVars, started, granted,
                   MainVars, SyncVars, program, now, inGuild, roles, delivered, subs, applied, SweepVars>>
    /\ \/ Respond(h, 200, "member not found")
       \/ /\ ReqMember(h) \in inGuild
          /\ Continue(h, StepOfSetRoles(roles[ReqMember(h)], ReqPlan(h).role),
                      roles[ReqMember(h)])

(* await member.add_roles(verified_role) *)
HandlerAddVerified(h) ==
    /\ ServiceRuns
    /\ hpc[h] = "add_verified"
    /\ UNCHANGED <<CallVars, BotVars, started, granted,
                   MainVars, SyncVars, program, now, inGuild, delivered, subs, applied, SweepVars>>
    /\ \/ /\ roles' = [roles EXCEPT ![ReqMember(h)] = @ \cup {ROLE_VERIFIED}]
          /\ Continue(h, StepAfterVerified(hsnap[h], ReqPlan(h).role), hsnap[h])
       \/ /\ Respond(h, 500, "Internal Server Error")
          /\ UNCHANGED roles

(* await member.remove_roles of roles_to_remove *)
HandlerRemoveRoles(h) ==
    /\ ServiceRuns
    /\ hpc[h] = "remove_roles"
    /\ UNCHANGED <<CallVars, BotVars, started, granted,
                   MainVars, SyncVars, program, now, inGuild, delivered, subs, applied, SweepVars>>
    /\ LET rs == RolesToRemoveForTier(hsnap[h], ReqPlan(h).role) IN
       \/ /\ roles' = [roles EXCEPT ![ReqMember(h)] = @ \ rs]
          /\ Continue(h, StepAfterRemove(hsnap[h], ReqPlan(h).role), hsnap[h])
       \/ \E gone \in PartlyRemoved(rs) :
             /\ roles' = [roles EXCEPT ![ReqMember(h)] = @ \ gone]
             /\ Respond(h, 500, "Internal Server Error")

(* await member.add_roles(tier_role) *)
HandlerAddTier(h) ==
    /\ ServiceRuns
    /\ hpc[h] = "add_tier"
    /\ UNCHANGED <<CallVars, BotVars, started, granted,
                   MainVars, SyncVars, program, now, inGuild, delivered, subs, applied, SweepVars>>
    /\ \/ /\ roles' = [roles EXCEPT ![ReqMember(h)] = @ \cup {ReqPlan(h).role}]
          /\ Respond(h, 200, "received")
       \/ /\ Respond(h, 500, "Internal Server Error")
          /\ UNCHANGED roles

----------------------------------------------------------------------------
(* stripe_webhook.py: expiration_loop *)

(* The for loop of expiration_loop takes its next row and awaits           *)
(* fetch_member, or the tick ends and the loop sleeps.  fetchall() returns *)
(* the rows in no specified order.                                         *)
SweepNext(queue, failed) ==
    IF queue = {}
    THEN /\ epc' = "sleep"
         /\ expired' = {}
         /\ equeue' = {}
         /\ ecur' = NoId
         /\ eremove' = {}
         /\ efailed' = {}
    ELSE /\ epc' = "fetch_member"
         /\ \E m \in queue : ecur' = m /\ equeue' = queue \ {m}
         /\ eremove' = {}
         /\ efailed' = failed
         /\ UNCHANGED expired

(* except Exception: the tick is abandoned and the loop sleeps. *)
SweepAbort ==
    /\ epc' = "sleep"
    /\ expired' = {}
    /\ equeue' = {}
    /\ ecur' = NoId
    /\ eremove' = {}
    /\ efailed' = {}

(* expired = get_expired_subscriptions(), after the sleep. *)
SweepTick ==
    /\ ServiceRuns
    /\ epc = "sleep"
    /\ get_expired_subscriptions(subs, now) # {}
    /\ expired' = get_expired_subscriptions(subs, now)
    /\ epc' = "fetch_member"
    /\ \E m \in expired' : ecur' = m /\ equeue' = expired' \ {m}
    /\ eremove' = {}
    /\ efailed' = {}
    /\ UNCHANGED <<CallVars, BotVars, started, granted,
                   MainVars, SyncVars, program, now, inGuild, roles, delivered, subs, applied, HandlerVars>>

(* member = await fetch_member(discord_id); then remove_all_tier_roles up  *)
(* to its await, or, with nothing to remove or no member, on to            *)
(* clear_subscription and the next row.                                    *)
SweepFetchMember ==
    /\ ServiceRuns
    /\ epc = "fetch_member"
    /\ UNCHANGED <<CallVars, BotVars, started, granted,
                   MainVars, SyncVars, program, now, inGuild, roles, delivered, applied, HandlerVars>>
    /\ \/ \* fetch_member returned None
          /\ subs' = clear_subscription(subs, ecur)
          /\ SweepNext(equeue, efailed \cup {ecur})
       \/ /\ ecur \in inGuild
          /\ IF RolesToRemoveAll(roles[ecur]) = {}
             THEN /\ subs' = clear_subscription(subs, ecur)
                  /\ SweepNext(equeue, efailed)
             ELSE /\ epc' = "remove_roles"
                  /\ eremove' = RolesToRemoveAll(roles[ecur])
                  /\ UNCHANGED <<subs, expired, equeue, ecur, efailed>>

(* await member.remove_roles of roles_to_remove, then clear_subscription. *)
SweepRemoveRoles ==
    /\ ServiceRuns
    /\ epc = "remove_roles"
    /\ UNCHANGED <<CallVars, BotVars, started, granted,
                   MainVars, SyncVars, program, now, inGuild, delivered, applied, HandlerVars>>
    /\ \/ /\ roles' = [roles EXCEPT ![ecur] = @ \ eremove]
          /\ subs' = clear_subscription(subs, ecur)
          /\ SweepNext(equeue, efailed)
       \/ \E gone \in PartlyRemoved(eremove) :
             /\ roles' = [roles EXCEPT ![ecur] = @ \ gone]
             /\ SweepAbort
             /\ UNCHANGED subs

----------------------------------------------------------------------------
(* tasks_runner.py: sync_roles *)

GUILD_ID == "1426996503880138815"

ROLE_MAP ==
    [tier \in {"recruit", "elite", "fighter"} |->
        CASE tier = "recruit" -> "1426996503880138815"
          [] tier = "elite" -> "1475724667493810186"
          [] OTHER -> "1476504028576743520"]

RoleMapRoles == {ROLE_MAP[tier] : tier \in DOMAIN ROLE_MAP}

(* expired = expires < now *)
SyncExpired(expires, t) == expires < t

(* The for loop of sync_roles takes its next row whose member             *)
(* guild.get_member finds and awaits remove_roles, or the pass ends and    *)
(* the loop sleeps.                                                        *)
SyncNext(queue) ==
    IF queue = {}
    THEN /\ spc' = "sleep"
         /\ squeue' = {}
         /\ scur' = NoId
    ELSE /\ spc' = "remove_roles"
         /\ \E m \in queue : scur' = m /\ squeue' = queue \ {m}

(* An exception leaves sync_roles: nothing catches it, the task is over. *)
SyncDie ==
    /\ spc' = "dead"
    /\ squeue' = {}
    /\ scur' = NoId

(* now = datetime.now(); rows = SELECT ... FROM subscriptions; the first   *)
(* iteration up to its await.  Rows whose member is not in the guild are   *)
(* skipped (continue).                                                     *)
SyncPass ==
    /\ program = "tasks_runner"
    /\ spc = "sleep"
    /\ snow' = now
    /\ IF env.database_url
       THEN /\ srows' = subs
            /\ SyncNext({m \in Members : subs[m] # NoRow /\ m \in inGuild})
       ELSE \* psycopg.connect raises
            /\ UNCHANGED srows
            /\ SyncDie
    /\ UNCHANGED <<CallVars, BotVars, started, granted,
                   MainVars, program, now, inGuild, roles, delivered, subs, applied,
                   HandlerVars, SweepVars>>

(* await member.remove_roles of every role of ROLE_MAP ("Tier refresh"),   *)
(* then either `continue` (expired) or the await of add_roles.             *)
SyncRemoveRoles ==
    /\ program = "tasks_runner"
    /\ spc = "remove_roles"
    /\ UNCHANGED <<CallVars, BotVars, started, granted,
                   MainVars, program, now, inGuild, delivered, subs, applied,
                   HandlerVars, SweepVars, snow, srows>>
    /\ \/ /\ roles' = [roles EXCEPT ![scur] = @ \ RoleMapRoles]
          /\ IF SyncExpired(srows[scur].expires_at, snow)
             THEN SyncNext(squeue)
             ELSE spc' = "add_roles" /\ UNCHANGED <<squeue, scur>>
       \/ \E gone \in PartlyRemoved(RoleMapRoles \cap roles[scur]) :
             /\ roles' = [roles EXCEPT ![scur] = @ \ gone]
             /\ SyncDie

(* await member.add_roles(role), then the verified badge. *)
SyncAddRoles ==
    /\ program = "tasks_runner"
    /\ spc = "add_roles"
    /\ UNCHANGED <<CallVars, BotVars, started, granted,
                   MainVars, program, now, inGuild, delivered, subs, applied,
                   HandlerVars, SweepVars, snow, srows>>
    /\ \/ /\ roles' = [roles EXCEPT ![scur] = @ \cup {ROLE_MAP[srows[scur].tier]}]
          /\ IF ROLE_VERIFIED \notin roles[scur]
             THEN spc' = "add_verified" /\ UNCHANGED <<squeue, scur>>
             ELSE SyncNext(squeue)
       \/ /\ UNCHANGED roles
          /\ SyncDie

(* await member.add_roles(verified) *)
SyncAddVerified ==
    /\ program = "tasks_runner"
    /\ spc = "add_verified"
    /\ UNCHANGED <<CallVars, BotVars, started, granted,
                   MainVars, program, now, inGuild, delivered, subs, applied,
                   HandlerVars, SweepVars, snow, srows>>
    /\ \/ /\ roles' = [roles EXCEPT ![scur] = @ \cup {ROLE_VERIFIED}]
          /\ SyncNext(squeue)
       \/ /\ UNCHANGED roles
          /\ SyncDie

----------------------------------------------------------------------------
(* main.py: configuration and database *)

NoPay == [id |-> 0, discord_id |-> NoId, tier |-> "none",
          status |-> "none", processed |-> FALSE]
NoTier == "None"
NoRole == "None"

(* The checkout events delivered to main.py's webhook, by session id:      *)
(* metadata.discord_id, metadata.tier as the client sent it, and           *)
(* payment_status.                                                         *)
MainEvents ==
    [id \in {"cs_1", "cs_2", "cs_4", "cs_5", "cs_6", "cs_8", "evt_7"} |->
        CASE id = "cs_1" -> [type |-> CHECKOUT, discord_id |-> 1,
                             tier |-> "elite", payment_status |-> "paid"]
          [] id = "cs_2" -> [type |-> CHECKOUT, discord_id |-> 1,
                             tier |-> "Fighter ", payment_status |-> "paid"]
          [] id = "cs_4" -> [type |-> CHECKOUT, discord_id |-> 2,
                             tier |-> "civilian", payment_status |-> "None"]
          [] id = "cs_5" -> [type |-> CHECKOUT, discord_id |-> NoId,
                             tier |-> "elite", payment_status |-> "paid"]
          [] id = "cs_6" -> [type |-> CHECKOUT, discord_id |-> 2,
                             tier |-> "premium", payment_status |-> "paid"]
          [] id = "cs_8" -> [type |-> CHECKOUT, discord_id |-> 1,
                             tier |-> "elite", payment_status |-> "unpaid"]
          [] OTHER       -> [type |-> "payment_intent.succeeded", discord_id |-> 1,
                             tier |-> "elite", payment_status |-> "paid"]]

MainEventIds == DOMAIN MainEvents

(* The request as main.py's handler sees it: no stripe-signature header,  *)
(* a header construct_event rejects, or a verified event.                  *)
MainVerifyOutcomes == {"ok", "missing_header", "invalid"}

(* str(tier).lower().strip() *)
LowerStrip(tier) ==
    CASE tier = "Fighter " -> "fighter"
      [] tier = "Elite " -> "elite"
      [] OTHER -> tier

(* payment_status = data_object.get("payment_status") or "completed", then *)
(* status = "paid" if it lowers to "paid" else its lower case.             *)
PaymentStatus(payment_status) ==
    IF payment_status = "None" THEN "completed" ELSE payment_status

(* The deployments: whether STRIPE_WEBHOOK_SECRET is set, whether the      *)
(* database can be reached (DATABASE_URL, or the PG* variables), and what  *)
(* ROLE_ID_CIVILIAN, ROLE_ID_FIGHTER and ROLE_ID_ELITE hold (NoRole: unset *)
(* or not a number; ROLE_ID_DELETED: the id of a role the guild no longer  *)
(* has).                                                                   *)
MainEnvs ==
    {[whsec |-> TRUE, database_url |-> TRUE,
      role_ids |-> [civilian |-> "ROLE_ID_CIVILIAN", fighter |-> "ROLE_ID_FIGHTER",
                    elite |-> "ROLE_ID_ELITE"]],
     [whsec |-> FALSE, database_url |-> TRUE,
      role_ids |-> [civilian |-> "ROLE_ID_CIVILIAN", fighter |-> "ROLE_ID_FIGHTER",
                    elite |-> "ROLE_ID_ELITE"]],
     [whsec |-> TRUE, database_url |-> TRUE,
      role_ids |-> [civilian |-> NoRole, fighter |-> "ROLE_ID_DELETED",
                    elite |-> "ROLE_ID_ELITE"]],
     [whsec |-> TRUE, database_url |-> FALSE,
      role_ids |-> [civilian |-> "ROLE_ID_CIVILIAN", fighter |-> "ROLE_ID_FIGHTER",
                    elite |-> "ROLE_ID_ELITE"]]}

(* The deployments of stripe_webhook.py and tasks_runner.py: every         *)
(* variable set, or DATABASE_URL missing.                                  *)
Envs == {e \in MainEnvs : e.whsec /\ e.role_ids.civilian # NoRole}

(* The roles of main.py's guild that exist (guild.get_role is not None). *)
MainGuildRoles == {"ROLE_ID_CIVILIAN", "ROLE_ID_FIGHTER", "ROLE_ID_ELITE"}

(* A role lookup that falls back to the civilian role for a tier it does   *)
(* not know.                                                               *)
role_id_for_tier_Default(e, tier) ==
    IF LowerStrip(tier) \in DOMAIN e.role_ids
    THEN e.role_ids[LowerStrip(tier)]
    ELSE "ROLE_ID_CIVILIAN"

(* Lines 204-215: the tier, lower-cased and stripped, selects one of the   *)
(* three ROLE_ID_ variables; an unknown tier, or an unset variable, gives  *)
(* None.                                                                   *)
role_id_for_tier(e, tier) ==
    IF LowerStrip(tier) \in DOMAIN e.role_ids
    THEN e.role_ids[LowerStrip(tier)]
    ELSE NoRole

(* INSERT ... ON CONFLICT (session_id) DO UPDATE SET status = EXCLUDED.status *)
insert_paid_payment(table, session_id, discord_id, tier, status) ==
    IF table[session_id] # NoPay
    THEN [table EXCEPT ![session_id].status = status]
    ELSE [table EXCEPT ![session_id] =
            [id |-> Cardinality({x \in DOMAIN table : table[x] # NoPay}) + 1,
             discord_id |-> discord_id, tier |-> tier,
             status |-> status, processed |-> FALSE]]

FetchLimit == 10

Unprocessed(table) ==
    {x \in DOMAIN table :
        /\ table[x] # NoPay
        /\ table[x].processed = FALSE
        /\ table[x].status \in {"paid", "complete", "succeeded", "completed"}}

(* The rows of `ids` in the order of their creation, at most `limit`: the  *)
(* i-th is the row that i - 1 rows of `ids` precede.                       *)
OrderedRows(table, ids, limit) ==
    [i \in 1..(IF Cardinality(ids) < limit THEN Cardinality(ids) ELSE limit) |->
        CHOOSE x \in ids :
            Cardinality({y \in ids : table[y].id < table[x].id}) = i - 1]

(* SELECT * FROM payments WHERE processed = FALSE AND status IN (...)      *)
(* ORDER BY created_at ASC LIMIT limit                                     *)
fetch_unprocessed(table, limit) == OrderedRows(table, Unprocessed(table), limit)

(* The sessions of the rows a poll returns. *)
Fetched(table) ==
    {fetch_unprocessed(table, FetchLimit)[i] :
        i \in DOMAIN fetch_unprocessed(table, FetchLimit)}

mark_processed(table, session_id) ==
    [table EXCEPT ![session_id].processed = TRUE]

----------------------------------------------------------------------------
(* main.py: the webhook handler *)

MainReqEvent(h) == MainEvents[hreq[h].id]

(* Lines 308-343: what the handler decides before it writes. *)
MainIntake(e, verify, ev) ==
    IF ~e.whsec THEN "STRIPE_WEBHOOK_SECRET missing"
    ELSE IF verify = "missing_header" THEN "Missing stripe-signature header"
    ELSE IF verify = "invalid" THEN "Invalid signature"
    ELSE IF ev.type # CHECKOUT THEN "received"
    ELSE IF ev.discord_id = NoId \/ ev.tier = NoTier THEN "ignored"
    ELSE "insert"

MainIntakeStatus(outcome) ==
    CASE outcome = "STRIPE_WEBHOOK_SECRET missing" -> 500
      [] outcome \in {"Missing stripe-signature header", "Invalid signature"} -> 400
      [] OTHER -> 200

(* payload = await request.body().  A request takes the first free slot. *)
MainReceive(h) ==
    /\ program = "main"
    /\ hpc[h] = "idle"
    /\ \A other \in Handlers : other < h => hpc[other] # "idle"
    /\ delivered < MaxDeliveries
    /\ \E id \in MainEventIds, v \in MainVerifyOutcomes :
          /\ v # "ok" => id \in UnverifiedIds
          /\ hreq' = [hreq EXCEPT ![h] = [id |-> id, verify |-> v]]
    /\ hpc' = [hpc EXCEPT ![h] = "recv"]
    /\ hresp' = [hresp EXCEPT ![h] = NoResp]
    /\ delivered' = delivered + 1
    /\ UNCHANGED <<CallVars, BotVars, started, granted,
                   SyncVars, SweepVars, MainVars, program, now, inGuild, roles,
                   subs, applied, hsnap>>

(* Lines 309-365: the rest of the handler. *)
MainHandle(h) ==
    /\ program = "main"
    /\ hpc[h] = "recv"
    /\ UNCHANGED <<CallVars, BotVars, started, granted,
                   SyncVars, SweepVars, program, now, inGuild, roles, delivered,
                   subs, applied, env, wpc, wrows, wlast>>
    /\ LET outcome == MainIntake(env, hreq[h].verify, MainReqEvent(h)) IN
       IF outcome # "insert"
       THEN Respond(h, MainIntakeStatus(outcome), outcome) /\ UNCHANGED payments
       ELSE \/ /\ env.database_url
               /\ payments' = insert_paid_payment(payments, hreq[h].id,
                                 MainReqEvent(h).discord_id,
                                 LowerStrip(MainReqEvent(h).tier),
                                 PaymentStatus(MainReqEvent(h).payment_status))
               /\ Respond(h, 200, "received")
            \/ \* the database raises
               /\ Respond(h, 500, "DB insert failed")
               /\ UNCHANGED payments

----------------------------------------------------------------------------
(* main.py: RoleWorker *)

(* run_worker: the worker process, next to the web service or on its own.  *)
(* It calls ensure_tables before it starts the client: without a database  *)
(* the process ends there.                                                 *)
WorkerRuns == program \in {"main", "worker"} /\ env.database_url

WorkerRow == payments[Head(wrows)]

(* process_row returned: the for loop of worker_loop goes on. *)
WorkerNextRow ==
    /\ wrows' = Tail(wrows)
    /\ wpc' = IF Tail(wrows) = <<>> THEN "sleep" ELSE "process_row"

(* Lines 427-438: with the member at hand, up to the await of add_roles. *)
WorkerHaveMember ==
    LET role_id == role_id_for_tier(env, WorkerRow.tier) IN
    IF role_id \notin MainGuildRoles
    THEN WorkerNextRow /\ UNCHANGED payments
    ELSE IF role_id \in roles[WorkerRow.discord_id]
    THEN /\ payments' = mark_processed(payments, Head(wrows))
         /\ WorkerNextRow
    ELSE /\ wpc' = "add_roles"
         /\ UNCHANGED <<payments, wrows>>

(* Lines 419-425: guild.get_member, or on a miss the await of fetch_member. *)
WorkerGetMember ==
    \/ /\ wpc' = "fetch_member"
       /\ UNCHANGED <<payments, wrows>>
    \/ /\ WorkerRow.discord_id \in inGuild
       /\ WorkerHaveMember

(* rows = fetch_unprocessed(limit=10), after the sleep. *)
WorkerPoll ==
    /\ WorkerRuns
    /\ wpc = "sleep"
    /\ fetch_unprocessed(payments, FetchLimit) # <<>>
    /\ wrows' = fetch_unprocessed(payments, FetchLimit)
    /\ wpc' = "process_row"
    /\ UNCHANGED <<CallVars, BotVars, started, granted,
                   SyncVars, SweepVars, HandlerVars, program, now, inGuild, roles,
                   delivered, subs, applied, env, payments>>
    /\ wlast' = Fetched(payments)

(* Lines 400-416: process_row up to its first await. *)
WorkerProcessRow ==
    /\ WorkerRuns
    /\ wpc = "process_row"
    /\ UNCHANGED <<CallVars, BotVars, started, granted,
                   SyncVars, SweepVars, HandlerVars, program, now, inGuild, roles,
                   delivered, subs, applied, env, wlast>>
    /\ IF role_id_for_tier(env, WorkerRow.tier) = NoRole
       THEN /\ payments' = mark_processed(payments, Head(wrows))
            /\ WorkerNextRow
       ELSE \/ /\ wpc' = "fetch_guild"
               /\ UNCHANGED <<payments, wrows>>
            \/ WorkerGetMember

(* guild = await self.fetch_guild(self.guild_id) *)
WorkerFetchGuild ==
    /\ WorkerRuns
    /\ wpc = "fetch_guild"
    /\ UNCHANGED <<CallVars, BotVars, started, granted,
                   SyncVars, SweepVars, HandlerVars, program, now, inGuild, roles,
                   delivered, subs, applied, env, wlast>>
    /\ \/ WorkerGetMember
       \/ WorkerNextRow /\ UNCHANGED payments

(* A process_row that marks the row processed when the member cannot be   *)
(* fetched.                                                                *)
WorkerFetchMember_MarksOnFailure ==
    /\ WorkerRuns
    /\ wpc = "fetch_member"
    /\ UNCHANGED <<CallVars, BotVars, started, granted,
                   SyncVars, SweepVars, HandlerVars, program, now, inGuild, roles,
                   delivered, subs, applied, env, wlast>>
    /\ \/ /\ WorkerRow.discord_id \in inGuild
          /\ WorkerHaveMember
       \/ /\ payments' = mark_processed(payments, Head(wrows))
          /\ WorkerNextRow

(* member = await guild.fetch_member(discord_id) *)
WorkerFetchMember ==
    /\ WorkerRuns
    /\ wpc = "fetch_member"
    /\ UNCHANGED <<CallVars, BotVars, started, granted,
                   SyncVars, SweepVars, HandlerVars, program, now, inGuild, roles,
                   delivered, subs, applied, env, wlast>>
    /\ \/ /\ WorkerRow.discord_id \in inGuild
          /\ WorkerHaveMember
       \/ WorkerNextRow /\ UNCHANGED payments

(* A process_row that marks the row processed whether add_roles raised or  *)
(* not.                                                                    *)
WorkerAddRoles_MarksOnFailure ==
    /\ WorkerRuns
    /\ wpc = "add_roles"
    /\ UNCHANGED <<CallVars, BotVars, started, SyncVars, SweepVars, HandlerVars, program, now,
                   inGuild, delivered, subs, applied, env, wlast>>
    /\ payments' = mark_processed(payments, Head(wrows))
    /\ WorkerNextRow
    /\ \/ /\ roles' = [roles EXCEPT ![WorkerRow.discord_id] =
                          @ \cup {role_id_for_tier(env, WorkerRow.tier)}]
          /\ granted' = [granted EXCEPT ![Head(wrows)] = @ + 1]
       \/ UNCHANGED <<roles, granted>>

(* await member.add_roles(role), then mark_processed.  Either call may     *)
(* raise; process_row catches the exception and leaves the row unmarked.   *)
WorkerAddRoles ==
    /\ WorkerRuns
    /\ wpc = "add_roles"
    /\ UNCHANGED <<CallVars, BotVars, started, SyncVars, SweepVars, HandlerVars, program, now,
                   inGuild, delivered, subs, applied, env, wlast>>
    /\ \/ /\ roles' = [roles EXCEPT ![WorkerRow.discord_id] =
                          @ \cup {role_id_for_tier(env, WorkerRow.tier)}]
          /\ granted' = [granted EXCEPT ![Head(wrows)] = @ + 1]
          /\ \/ payments' = mark_processed(payments, Head(wrows))
             \/ UNCHANGED payments
          /\ WorkerNextRow
       \/ /\ UNCHANGED <<roles, payments, granted>>
          /\ WorkerNextRow

----------------------------------------------------------------------------
(* stripe_webhook.py: the statements of upsert_subscription and            *)
(* clear_subscription, as two database sessions run them.  Every call      *)
(* opens its own connection (db_conn), so calls made by different          *)
(* processes or threads interleave between their statements; a statement   *)
(* and the commit that follows it are one step.                            *)

MaxCalls == 3
Callers == {1, 2}

NoCall == [discord_id |-> NoId, tier |-> "none", days |-> 0]
NoReturn == [raised |-> FALSE, new_expires |-> -1]

(* discord_id BIGINT PRIMARY KEY: an INSERT of a key the table holds       *)
(* raises UniqueViolation.  This operator ignores the key.                 *)
UniqueViolation_NoKey(tbl, discord_id) == FALSE

(* discord_id BIGINT PRIMARY KEY *)
UniqueViolation(tbl, discord_id) ==
    \E i \in DOMAIN tbl : tbl[i].discord_id = discord_id

(* SELECT expires_at FROM subscriptions WHERE discord_id = ...; fetchone() *)
SelectRow(tbl, discord_id) ==
    IF \E i \in DOMAIN tbl : tbl[i].discord_id = discord_id
    THEN LET i == CHOOSE k \in DOMAIN tbl :
                     /\ tbl[k].discord_id = discord_id
                     /\ \A j \in 1..(k - 1) : tbl[j].discord_id # discord_id
         IN [tier |-> tbl[i].tier, expires_at |-> tbl[i].expires_at]
    ELSE NoRow

(* UPDATE subscriptions SET tier = ..., expires_at = ... WHERE discord_id = ... *)
UpdateRows(tbl, discord_id, tier, new_expires) ==
    [i \in DOMAIN tbl |->
        IF tbl[i].discord_id = discord_id
        THEN [discord_id |-> discord_id, tier |-> tier, expires_at |-> new_expires]
        ELSE tbl[i]]

(* INSERT INTO subscriptions (discord_id, tier, expires_at) VALUES ... *)
InsertRow(tbl, discord_id, tier, new_expires) ==
    Append(tbl, [discord_id |-> discord_id, tier |-> tier, expires_at |-> new_expires])

(* DELETE FROM subscriptions WHERE discord_id = ... *)
DeleteRows(tbl, discord_id) ==
    SelectSeq(tbl, LAMBDA r : r.discord_id # discord_id)

(* A current_expires read again, under a row lock, when the UPDATE runs. *)
current_expires_Locked(row, stored) ==
    IF stored # NoRow THEN stored.expires_at ELSE row.expires_at

(* current_expires = row[0]: the value the SELECT fetched, whatever the    *)
(* table holds (`stored`) by the time of the UPDATE.                       *)
current_expires(row, stored) == row.expires_at

(* Lines 81-87: now, and the SELECT of a new call of upsert_subscription. *)
UpsertSelect(c) ==
    /\ program = "upsert_subscription"
    /\ cpc[c] = "idle"
    /\ ccalls < MaxCalls
    /\ \E m \in Members, price \in DOMAIN PRICE_MAP :
          /\ cargs' = [cargs EXCEPT ![c] =
                         [discord_id |-> m, tier |-> PRICE_MAP[price].tier,
                          days |-> PRICE_MAP[price].days]]
          /\ cread' = [cread EXCEPT ![c] = SelectRow(subscriptions, m)]
    /\ cnow' = [cnow EXCEPT ![c] = now]
    /\ cpc' = [cpc EXCEPT ![c] = "write"]
    /\ cret' = [cret EXCEPT ![c] = NoReturn]
    /\ ccalls' = ccalls + 1
    /\ UNCHANGED <<BotVars, subscriptions, cpaid, started, granted, MainVars, SyncVars, SweepVars,
                   HandlerVars, program, now, inGuild, roles, delivered, subs, applied>>

(* Lines 89-107: the UPDATE or the INSERT, the commit and the return. *)
UpsertWrite(c) ==
    /\ program = "upsert_subscription"
    /\ cpc[c] = "write"
    /\ cpc' = [cpc EXCEPT ![c] = "idle"]
    /\ UNCHANGED <<BotVars, cargs, cnow, cread, ccalls, started, granted, MainVars, SyncVars,
                   SweepVars, HandlerVars, program, now, inGuild, roles, delivered,
                   subs, applied>>
    /\ LET m == cargs[c].discord_id
           returned(new_expires) ==
               /\ cret' = [cret EXCEPT ![c] =
                              [raised |-> FALSE, new_expires |-> new_expires]]
               /\ cpaid' = [cpaid EXCEPT ![m] = @ + cargs[c].days]
       IN IF cread[c] # NoRow
          THEN LET new_expires ==
                       RenewalBase(current_expires(cread[c], SelectRow(subscriptions, m)),
                                   cnow[c]) + cargs[c].days
               IN /\ subscriptions' = UpdateRows(subscriptions, m, cargs[c].tier, new_expires)
                  /\ returned(new_expires)
          ELSE IF UniqueViolation(subscriptions, m)
          THEN /\ cret' = [cret EXCEPT ![c] = [raised |-> TRUE, new_expires |-> -1]]
               /\ UNCHANGED <<subscriptions, cpaid>>
          ELSE /\ subscriptions' = InsertRow(subscriptions, m, cargs[c].tier, cnow[c] + cargs[c].days)
               /\ returned(cnow[c] + cargs[c].days)

(* clear_subscription(discord_id), called by another session. *)
ClearCall ==
    /\ program = "upsert_subscription"
    /\ \E m \in Members :
          /\ UniqueViolation(subscriptions, m)
          /\ subscriptions' = DeleteRows(subscriptions, m)
          /\ cpaid' = [cpaid EXCEPT ![m] = 0]
    /\ UNCHANGED <<BotVars, cpc, cargs, cnow, cread, cret, ccalls, started, granted, MainVars,
                   SyncVars, SweepVars, HandlerVars, program, now, inGuild, roles,
                   delivered, subs, applied>>

----------------------------------------------------------------------------
(* The start event *)

MaxStarts == 2

(* tasks_runner.py on_ready: client.loop.create_task(sync_roles()), at     *)
(* every READY of the gateway.  The model steps the first task and counts  *)
(* the others.                                                             *)
OnReady ==
    /\ program = "tasks_runner"
    /\ started < MaxStarts
    /\ started' = started + 1
    /\ UNCHANGED <<CallVars, BotVars, granted, MainVars, SyncVars, SweepVars, HandlerVars,
                   program, now, inGuild, roles, delivered, subs, applied>>

(* main.py RoleWorker.on_ready: await self.worker_loop(), at every READY.  *)
(* The model steps the first worker_loop at every await; a later one takes *)
(* the steps of OtherWorkerRow.                                            *)
MainOnReady ==
    /\ WorkerRuns
    /\ started < MaxStarts
    /\ started' = started + 1
    /\ UNCHANGED <<CallVars, BotVars, granted, MainVars, SyncVars, SweepVars, HandlerVars,
                   program, now, inGuild, roles, delivered, subs, applied>>

(* process_row of a worker_loop that a later READY started, for one of the *)
(* rows its fetch_unprocessed returned, run to its end in one step.  The   *)
(* runs in which one of its calls raises change nothing.                   *)
OtherWorkerRow ==
    /\ WorkerRuns
    /\ started >= 2
    /\ UNCHANGED <<CallVars, BotVars, started, SyncVars, SweepVars, HandlerVars, program, now,
                   inGuild, delivered, subs, applied, env, wpc, wrows, wlast>>
    /\ \E s \in Fetched(payments) :
          LET row == payments[s]
              role_id == role_id_for_tier(env, row.tier)
          IN /\ payments' = mark_processed(payments, s)
             /\ IF role_id = NoRole
                THEN UNCHANGED <<roles, granted>>
                ELSE /\ row.discord_id \in inGuild
                     /\ role_id \in MainGuildRoles
                     /\ IF role_id \in roles[row.discord_id]
                        THEN UNCHANGED <<roles, granted>>
                        ELSE /\ roles' = [roles EXCEPT ![row.discord_id] =
                                             @ \cup {role_id}]
                             /\ granted' = [granted EXCEPT ![s] = @ + 1]

(* The loop tasks that are running: those created, less the one ended by   *)
(* an exception.                                                           *)
Running == started - (IF spc = "dead" THEN 1 ELSE 0)

----------------------------------------------------------------------------
(* Commands.py, Tasks_runner.py, dp.py: the draft with tiers free, premium *)
(* and elite, a users table beside the subscriptions table, and role names *)

NoUser == "none"

(* subscriptions.expires_at is nullable: NULL is a day before every day.   *)
NullExpiry == -2

ROLE_MEMBER == "Member"
ROLE_PREMIUM == "Premium Member"
(* Config.py ROLE_ELITE; stripe_webhook.py has its own ROLE_ELITE. *)
Config_ROLE_ELITE == "PT"

TIER_ROLE_MAP ==
    [free |-> ROLE_MEMBER, premium |-> ROLE_PREMIUM, elite |-> Config_ROLE_ELITE]

(* apply_tier_roles: set(TIER_ROLE_MAP.values()). *)
TierRoleNames == {TIER_ROLE_MAP[t] : t \in DOMAIN TIER_ROLE_MAP}

(* apply_tier_roles: TIER_ROLE_MAP.get(tier, ROLE_MEMBER). *)
TargetName(tier) ==
    IF tier \in DOMAIN TIER_ROLE_MAP THEN TIER_ROLE_MAP[tier] ELSE ROLE_MEMBER

(* dp.py ensure_user: INSERT ... ON CONFLICT DO NOTHING; the tier column   *)
(* defaults to 'free'.                                                     *)
ensure_user(tbl, discord_id) ==
    IF tbl[discord_id] = NoUser THEN [tbl EXCEPT ![discord_id] = "free"] ELSE tbl

(* dp.py set_tier: upserts the tier into users and into subscriptions; a   *)
(* new subscriptions row has expires_at NULL, an existing row keeps its    *)
(* expires_at.                                                             *)
set_tier(tbl, stbl, discord_id, tier) ==
    [users |-> [tbl EXCEPT ![discord_id] = tier],
     subscriptions |->
        IF stbl[discord_id] = NoRow
        THEN [stbl EXCEPT ![discord_id] = [tier |-> tier, expires_at |-> NullExpiry]]
        ELSE [stbl EXCEPT ![discord_id].tier = tier]]

(* dp.py get_tier. *)
get_tier(tbl, discord_id) ==
    IF tbl[discord_id] = NoUser THEN "free" ELSE tbl[discord_id]

(* dp.py set_subscription_expiry: a new row is inserted with tier          *)
(* 'premium', an existing row has only its expires_at set.                 *)
set_subscription_expiry(stbl, discord_id, expires_at) ==
    IF stbl[discord_id] = NoRow
    THEN [stbl EXCEPT ![discord_id] = [tier |-> "premium", expires_at |-> expires_at]]
    ELSE [stbl EXCEPT ![discord_id].expires_at = expires_at]

(* dp.py get_expiring: the rows WHERE expires_at IS NOT NULL, whatever     *)
(* now_utc is; by discord_id.                                              *)
get_expiring(stbl) ==
    {m \in Members : stbl[m] # NoRow /\ stbl[m].expires_at # NullExpiry}

RowsToExpire_NullIsPast(stbl, t) ==
    {m \in Members : stbl[m] # NoRow /\ stbl[m].expires_at - t <= 0}

(* expiry_sweep: the members of the rows whose branch `days_left <= 0` the *)
(* loop takes; days_left = (expires_at - now) in days, and a row without   *)
(* expires_at is skipped.                                                  *)
RowsToExpire(stbl, t) ==
    {m \in get_expiring(stbl) :
        stbl[m].expires_at # NullExpiry /\ stbl[m].expires_at - t <= 0}

BotTasks == {"cmd", "sweep"}

(* The commands and calls the model issues. *)
MaxCommands == 2
CommandTiers == {"free", "premium", "Elite ", "vip"}
ExpiryInputs == {10, 30}

IdleTask == [pc |-> "idle", member |-> NoId, tier |-> "none", todo |-> {}, role |-> "none"]

(* apply_tier_roles from the head of its loop on: the next await.  The     *)
(* loop visits the role names in the order of a Python set; a name whose   *)
(* role the member does not hold is passed without an await.  `held` is    *)
(* member.roles: for the command the Member object of the interaction, for *)
(* the sweep the cached member.                                            *)
ApplyNext(t, m, tier, todo, held) ==
    IF todo \cap held = {}
    THEN {[pc |-> "add_roles", member |-> m, tier |-> tier, todo |-> {},
           role |-> TargetName(tier)]}
    ELSE {[pc |-> "remove_roles", member |-> m, tier |-> tier,
           todo |-> todo \ {r}, role |-> r] : r \in todo \cap held}

CommandsRun == program = "commands"

(* expiry_sweep: the loop moves on to its next row.  A member who is not   *)
(* in the guild is passed; for the others db.set_tier(uid, "free") runs    *)
(* and apply_tier_roles starts.                                            *)
BotSweepNext(queue, heldNow) ==
    LET present == queue \cap inGuild IN
    IF present = {}
    THEN /\ bot' = [bot EXCEPT !["sweep"] = IdleTask]
         /\ bqueue' = {}
         /\ UNCHANGED <<users, subs>>
    ELSE \E m \in present :
            /\ bqueue' = present \ {m}
            /\ users' = set_tier(users, subs, m, "free").users
            /\ subs' = set_tier(users, subs, m, "free").subscriptions
            /\ \E nxt \in ApplyNext("sweep", m, "free", TierRoleNames, heldNow[m]) :
                  bot' = [bot EXCEPT !["sweep"] = nxt]

(* A task's apply_tier_roles call returned. *)
ApplyDone(t) ==
    IF t = "sweep"
    THEN /\ bot' = [bot EXCEPT ![t].pc = "send"]
         /\ UNCHANGED <<users, subs, bqueue>>
    ELSE /\ bot' = [bot EXCEPT ![t] = IdleTask]
         /\ UNCHANGED <<users, subs, bqueue>>

(* A task's apply_tier_roles call raised: the sweep's try/except moves on  *)
(* to the next row, the command ends.                                      *)
ApplyRaised(t) ==
    IF t = "sweep"
    THEN BotSweepNext(bqueue, roles')
    ELSE /\ bot' = [bot EXCEPT ![t] = IdleTask]
         /\ UNCHANGED <<users, subs, bqueue>>

BotRest ==
    <<CallVars, started, granted, MainVars, SyncVars, SweepVars, HandlerVars,
      program, now, inGuild, delivered, applied>>

(* Commands.py /start: the member gets the Member role and a users row.    *)
(* The Visitors role is not a tier role and is left out.  When add_roles   *)
(* raises, ensure_user is not reached.                                     *)
StartCommand(m) ==
    /\ CommandsRun
    /\ bcalls < MaxCommands
    /\ m \in inGuild
    /\ bcalls' = bcalls + 1
    /\ \/ /\ roles' = [roles EXCEPT ![m] = @ \cup {ROLE_MEMBER}]
          /\ users' = ensure_user(users, m)
       \/ UNCHANGED <<roles, users>>
    /\ UNCHANGED <<BotRest, subs, bot, bqueue, badmin>>

(* Commands.py /set_tier, up to its first await. *)
SetTierCommand(m, tier, admin) ==
    LET normal == LowerStrip(tier) IN
    /\ CommandsRun
    /\ bcalls < MaxCommands
    /\ bot["cmd"].pc = "idle"
    /\ m \in inGuild
    /\ bcalls' = bcalls + 1
    /\ IF normal \notin {"free", "premium", "elite"} \/ ~admin
       THEN UNCHANGED <<users, subs, bot, badmin>>
       ELSE /\ users' = set_tier(ensure_user(users, m), subs, m, normal).users
            /\ badmin' = IF /\ normal \in {"premium", "elite"}
                            /\ m \notin get_expiring(subs) \/ subs[m].expires_at <= now
                         THEN badmin \cup {m} ELSE badmin \ {m}
            /\ subs' = set_tier(ensure_user(users, m), subs, m, normal).subscriptions
            /\ \E nxt \in ApplyNext("cmd", m, normal, TierRoleNames \cap roles[m],
                                    roles[m]) :
                  bot' = [bot EXCEPT !["cmd"] = nxt]
    /\ UNCHANGED <<BotRest, roles, bqueue>>

(* dp.py set_subscription_expiry, called when a subscription is paid. *)
SetSubscriptionExpiry(m, e) ==
    /\ CommandsRun
    /\ bcalls < MaxCommands
    /\ bcalls' = bcalls + 1
    /\ subs' = set_subscription_expiry(subs, m, e)
    /\ badmin' = badmin \ {m}
    /\ UNCHANGED <<BotRest, roles, users, bot, bqueue>>

(* Tasks_runner.py daily_maintenance: expiry_sweep reads the clock and the *)
(* rows and enters its loop.                                               *)
ExpirySweep ==
    /\ CommandsRun
    /\ bot["sweep"].pc = "idle"
    /\ BotSweepNext(RowsToExpire(subs, now), roles)
    /\ UNCHANGED <<BotRest, roles, bcalls, badmin>>

(* apply_tier_roles: await member.remove_roles(r) returns or raises. *)
ApplyRemoveRoles(t) ==
    /\ CommandsRun
    /\ bot[t].pc = "remove_roles"
    /\ \/ /\ roles' = [roles EXCEPT ![bot[t].member] = @ \ {bot[t].role}]
          /\ \E nxt \in ApplyNext(t, bot[t].member, bot[t].tier, bot[t].todo,
                                  IF t = "cmd" THEN bot[t].todo
                                  ELSE roles'[bot[t].member]) :
                bot' = [bot EXCEPT ![t] = nxt]
          /\ UNCHANGED <<users, subs, bqueue>>
       \/ /\ UNCHANGED roles
          /\ ApplyRaised(t)
    /\ UNCHANGED <<BotRest, bcalls, badmin>>

(* apply_tier_roles: await member.add_roles(target) returns or raises. *)
ApplyAddRoles(t) ==
    /\ CommandsRun
    /\ bot[t].pc = "add_roles"
    /\ \/ /\ roles' = [roles EXCEPT ![bot[t].member] = @ \cup {bot[t].role}]
          /\ ApplyDone(t)
       \/ /\ UNCHANGED roles
          /\ ApplyRaised(t)
    /\ UNCHANGED <<BotRest, bcalls, badmin>>

(* expiry_sweep: await member.send(...) returns or raises (the DM is       *)
(* wrapped in its own try/except), and the loop moves on.                  *)
ExpirySweepSend ==
    /\ CommandsRun
    /\ bot["sweep"].pc = "send"
    /\ BotSweepNext(bqueue, roles)
    /\ UNCHANGED <<BotRest, roles, bcalls, badmin>>

----------------------------------------------------------------------------
(* Environment *)

(* Time passes.  main.py never reads the clock, and the database sessions  *)
(* run their calls within one day.                                         *)
Advance ==
    /\ program \in {"stripe_webhook", "tasks_runner", "commands"}
    /\ \E d \in ClockSteps : now + d <= MaxNow /\ now' = now + d
    /\ UNCHANGED <<CallVars, BotVars, started, granted,
                   MainVars, SyncVars, program, inGuild, roles, delivered, subs, applied,
                   HandlerVars, SweepVars>>

----------------------------------------------------------------------------
(* The system *)

InitStripeWebhook ==
    /\ program = "stripe_webhook"
    /\ roles = [m \in Members |-> {}]
    /\ subs = [m \in Members |-> NoRow]
    /\ env \in Envs

(* tasks_runner.py reads a subscriptions table that other services write   *)
(* and meets members whose roles were set before it started.               *)
SyncTiers == DOMAIN ROLE_MAP
SyncExpiries == {10, 30}
SyncRoleSets == {{}, {ROLE_MAP["elite"]}, {ROLE_MAP["fighter"], ROLE_VERIFIED}}

InitTasksRunner ==
    /\ program = "tasks_runner"
    /\ subs \in [Members -> {NoRow} \cup [tier : SyncTiers, expires_at : SyncExpiries]]
    /\ roles \in [Members -> SyncRoleSets]
    /\ \A m \in Members : m \notin inGuild => roles[m] = {}
    /\ env \in Envs

InitMain ==
    /\ program = "main"
    /\ roles = [m \in Members |-> {}]
    /\ subs = [m \in Members |-> NoRow]
    /\ env \in MainEnvs

(* The payments of earlier checkouts that the worker process finds in the *)
(* table when it starts: rows of member 2, oldest first, and after them    *)
(* the row of session cs_1 (member 1, elite).                              *)
Backlog ==
    <<"old_01", "old_02", "old_03", "old_04", "old_05",
      "old_06", "old_07", "old_08", "old_09", "old_10">>

BacklogIds == {Backlog[i] : i \in DOMAIN Backlog}

BacklogTable(k) ==
    [x \in MainEventIds \cup BacklogIds |->
        IF \E i \in 1..k : Backlog[i] = x
        THEN [id |-> CHOOSE i \in 1..k : Backlog[i] = x, discord_id |-> 2,
              tier |-> "elite", status |-> "paid", processed |-> FALSE]
        ELSE IF x = "cs_1"
        THEN [id |-> k + 1, discord_id |-> 1,
              tier |-> "elite", status |-> "paid", processed |-> FALSE]
        ELSE NoPay]

(* The worker process alone: member 2 has left the guild, so the rows of   *)
(* member 2 cannot be processed.  The table holds as many of them as one   *)
(* poll fetches, or one less.                                              *)
InitWorker ==
    /\ program = "worker"
    /\ inGuild = {1}
    /\ roles = [m \in Members |-> {}]
    /\ subs = [m \in Members |-> NoRow]
    /\ env = CHOOSE e \in Envs : e.database_url
    /\ \E k \in {FetchLimit - 1, FetchLimit} : payments = BacklogTable(k)
    /\ granted = [s \in MainEventIds \cup BacklogIds |-> 0]

(* The database sessions start on an empty subscriptions table. *)
InitUpsert ==
    /\ program = "upsert_subscription"
    /\ inGuild = {}
    /\ roles = [m \in Members |-> {}]
    /\ subs = [m \in Members |-> NoRow]
    /\ env = CHOOSE e \in Envs : e.database_url

(* The bot of Commands.py starts with empty tables; every member of the  *)
(* guild holds no tier role yet.                                           *)
InitCommands ==
    /\ program = "commands"
    /\ inGuild # {}
    /\ roles = [m \in Members |-> {}]
    /\ subs = [m \in Members |-> NoRow]
    /\ env = CHOOSE e \in Envs : e.database_url

Init ==
    /\ now = 0
    /\ inGuild \in SUBSET Members
    /\ delivered = 0
    /\ applied = {}
    /\ hpc = [h \in Handlers |-> "idle"]
    /\ hreq = [h \in Handlers |-> NoReq]
    /\ hsnap = [h \in Handlers |-> {}]
    /\ hresp = [h \in Handlers |-> NoResp]
    /\ epc = "sleep"
    /\ expired = {}
    /\ equeue = {}
    /\ ecur = NoId
    /\ eremove = {}
    /\ efailed = {}
    /\ spc = "sleep"
    /\ snow = 0
    /\ srows = [m \in Members |-> NoRow]
    /\ squeue = {}
    /\ scur = NoId
    /\ wpc = "sleep"
    /\ wrows = <<>>
    /\ started = 1
    /\ subscriptions = <<>>
    /\ cpc = [c \in Callers |-> "idle"]
    /\ cargs = [c \in Callers |-> NoCall]
    /\ cnow = [c \in Callers |-> 0]
    /\ cread = [c \in Callers |-> NoRow]
    /\ cret = [c \in Callers |-> NoReturn]
    /\ ccalls = 0
    /\ cpaid = [m \in Members |-> 0]
    /\ wlast = {}
    /\ users = [m \in Members |-> NoUser]
    /\ bcalls = 0
    /\ bot = [t \in BotTasks |-> IdleTask]
    /\ bqueue = {}
    /\ badmin = {}
    /\ \/ /\ \/ InitStripeWebhook
             \/ InitTasksRunner
             \/ InitMain
             \/ InitUpsert
             \/ InitCommands
          /\ payments = [x \in MainEventIds |-> NoPay]
          /\ granted = [s \in MainEventIds |-> 0]
       \/ InitWorker

Next ==
    \/ \E h \in Handlers : Receive(h)
    \/ \E h \in Handlers : Handle(h)
    \/ \E h \in Handlers : HandlerFetchMember(h)
    \/ \E h \in Handlers : HandlerAddVerified(h)
    \/ \E h \in Handlers : HandlerRemoveRoles(h)
    \/ \E h \in Handlers : HandlerAddTier(h)
    \/ SweepTick
    \/ SweepFetchMember
    \/ SweepRemoveRoles
    \/ SyncPass
    \/ SyncRemoveRoles
    \/ SyncAddRoles
    \/ SyncAddVerified
    \/ \E h \in Handlers : MainReceive(h)
    \/ \E h \in Handlers : MainHandle(h)
    \/ WorkerPoll
    \/ WorkerProcessRow
    \/ WorkerFetchGuild
    \/ WorkerFetchMember
    \/ WorkerAddRoles
    \/ \E c \in Callers : UpsertSelect(c)
    \/ \E c \in Callers : UpsertWrite(c)
    \/ ClearCall
    \/ OnReady
    \/ MainOnReady
    \/ OtherWorkerRow
    \/ \E m \in Members : StartCommand(m)
    \/ \E m \in Members, tier \in CommandTiers, admin \in BOOLEAN :
          SetTierCommand(m, tier, admin)
    \/ \E m \in Members, e \in ExpiryInputs : SetSubscriptionExpiry(m, e)
    \/ ExpirySweep
    \/ \E t \in BotTasks : ApplyRemoveRoles(t)
    \/ \E t \in BotTasks : ApplyAddRoles(t)
    \/ ExpirySweepSend
    \/ Advance

Spec == Init /\ [][Next]_vars

(* stripe_webhook.py alone, with the scheduling of its event loop: a       *)
(* request that was received is handled, every await of a handler and of   *)
(* expiration_loop returns, the loop wakes from its sleep, and time        *)
(* passes.  No payment event has to arrive.                                *)
LiveInit == Init /\ program = "stripe_webhook"

LiveNext ==
    \/ \E h \in Handlers : Receive(h)
    \/ \E h \in Handlers : Handle(h)
    \/ \E h \in Handlers : HandlerFetchMember(h)
    \/ \E h \in Handlers : HandlerAddVerified(h)
    \/ \E h \in Handlers : HandlerRemoveRoles(h)
    \/ \E h \in Handlers : HandlerAddTier(h)
    \/ SweepTick
    \/ SweepFetchMember
    \/ SweepRemoveRoles
    \/ Advance

LiveSpec ==
    /\ LiveInit
    /\ [][LiveNext]_vars
    /\ \A h \in Handlers :
          /\ WF_vars(Handle(h))
          /\ WF_vars(HandlerFetchMember(h))
          /\ WF_vars(HandlerAddVerified(h))
          /\ WF_vars(HandlerRemoveRoles(h))
          /\ WF_vars(HandlerAddTier(h))
    /\ WF_vars(SweepTick)
    /\ WF_vars(SweepFetchMember)
    /\ WF_vars(SweepRemoveRoles)
    /\ WF_vars(Advance)

(* The worker process of main.py on its own, with one worker_loop.  The    *)
(* loop wakes from every sleep and returns from every await; and a call    *)
(* made for the row of session cs_1, the only row here whose member is in  *)
(* the guild, does succeed at some time if it is made again and again.     *)
WorkerLiveInit == Init /\ program = "worker"

WorkerLiveNext ==
    \/ WorkerPoll
    \/ WorkerProcessRow
    \/ WorkerFetchGuild
    \/ WorkerFetchMember
    \/ WorkerAddRoles

(* The await of this step, made for the row of session s, returned        *)
(* without an exception.                                                   *)
CallSucceeded(s) == Head(wrows) = s /\ (wrows' = wrows \/ payments' # payments)

WorkerLiveSpec ==
    /\ WorkerLiveInit
    /\ [][WorkerLiveNext]_vars
    /\ WF_vars(WorkerPoll)
    /\ WF_vars(WorkerProcessRow)
    /\ WF_vars(WorkerFetchGuild)
    /\ WF_vars(WorkerFetchMember)
    /\ WF_vars(WorkerAddRoles)
    /\ SF_vars(WorkerFetchGuild /\ CallSucceeded("cs_1"))
    /\ SF_vars(WorkerFetchMember /\ CallSucceeded("cs_1"))
    /\ SF_vars(WorkerAddRoles /\ CallSucceeded("cs_1"))

----------------------------------------------------------------------------
(* Steps the properties speak about *)

(* Request h runs the synchronous part of its handler in this step. *)
HandleStep(h) == hpc[h] = "recv" /\ hpc'[h] # "recv"

(* Request h of stripe_webhook.py reaches upsert_subscription in this step. *)
UpsertStep(h) ==
    program = "stripe_webhook" /\ hpc[h] = "recv" /\ hpc'[h] = "fetch_member"

(* A tick of expiration_loop ends in this step. *)
TickEnds == program = "stripe_webhook" /\ epc # "sleep" /\ epc' = "sleep"

(* A pass of sync_roles ends in this step, by reaching the sleep or by an  *)
(* exception.                                                              *)
PassEnds ==
    program = "tasks_runner" /\ spc \in {"remove_roles", "add_roles", "add_verified"}
                             /\ spc' \in {"sleep", "dead"}

(* Request h carries a verified checkout.session.completed event. *)
VerifiedCheckout(h) ==
    /\ hreq[h].verify = "ok"
    /\ IF program = "main" THEN env.whsec /\ MainReqEvent(h).type = CHECKOUT
                           ELSE ReqEvent(h).type = CHECKOUT

(* The member identity of the event of request h. *)
EventMember(h) ==
    IF program = "main" THEN MainReqEvent(h).discord_id ELSE ReqEvent(h).discord_id

(* The request was acknowledged and nothing else is left of it. *)
Acknowledged(h) == hpc'[h] = "idle" /\ hresp'[h].status = 200

NoWrite == subs' = subs /\ payments' = payments /\ roles' = roles

----------------------------------------------------------------------------
(* C1: in stripe_webhook.py a delivery of a checkout event whose id was    *)
(* applied before mutates no subscriptions row, issues no role call and    *)
(* answers with a duplicate indication.                                    *)
C1_DuplicateDeliveryIgnored ==
    [][\A h \in Handlers :
          (program = "stripe_webhook" /\ HandleStep(h) /\ hreq[h].verify = "ok"
             /\ hreq[h].id \in applied)
          => (subs' = subs /\ hpc'[h] = "idle"
                /\ hresp'[h].body = "already processed")]_vars

(* C2: a purchase for a member whose record is still active               *)
(* (expires_at > now) sets expires_at to the old expires_at plus the       *)
(* purchased days, never to now plus the days.                             *)
C2_RenewalExtends ==
    [][\A h \in Handlers :
          (UpsertStep(h) /\ subs[ReqMember(h)] # NoRow
             /\ subs[ReqMember(h)].expires_at > now)
          => subs'[ReqMember(h)].expires_at
                = subs[ReqMember(h)].expires_at + ReqPlan(h).days]_vars

(* 30 days bought on day 0 and 30 more on day 10: the record expires on    *)
(* day 60.                                                                 *)
C2_Witness ==
    \E h \in Handlers :
        /\ program = "stripe_webhook"
        /\ hpc[h] = "fetch_member" /\ hreq[h].id = "cs_2"
        /\ applied = {"cs_1", "cs_2"}
        /\ now = 10
        /\ subs[1].expires_at = 60

(* C3: a purchase for a member with no record, or with a record whose      *)
(* expires_at is at most now, sets expires_at to now plus the purchased    *)
(* days.                                                                   *)
C3_ExpiredStartsFromNow ==
    [][\A h \in Handlers :
          (UpsertStep(h) /\ (subs[ReqMember(h)] = NoRow
                              \/ subs[ReqMember(h)].expires_at <= now))
          => subs'[ReqMember(h)].expires_at = now + ReqPlan(h).days]_vars

(* On day 30 the sweep has read member 1's record, which expires on day    *)
(* 30, as expired and has not yet cleared it; the second purchase found    *)
(* expires_at = now and the record now expires on day 60.                  *)
C3_Witness ==
    \E h \in Handlers :
        /\ program = "stripe_webhook"
        /\ hpc[h] = "fetch_member" /\ hreq[h].id = "cs_2"
        /\ applied = {"cs_1", "cs_2"}
        /\ now = 30
        /\ epc = "fetch_member" /\ ecur = 1
        /\ subs[1].expires_at = 60

(* A webhook request for member m is past its upsert and not yet answered. *)
InFlightFor(m) ==
    \E h \in Handlers : hpc[h] \notin {"idle", "recv"} /\ ReqMember(h) = m

(* C4: when a tick of expiration_loop ends, every member the tick read as  *)
(* expired, and whose record is still there and still expired, holds none  *)
(* of TIER_ROLE_IDS.  Members whose own lookup raised in the tick and the  *)
(* member of the last iteration are left out (no sweep could have revoked  *)
(* their roles), and so are members with a purchase in flight.             *)
C4_TickRevokesExpired ==
    [][TickEnds =>
          \A m \in expired \ (efailed \cup {ecur}) :
              (subs'[m] # NoRow /\ subs'[m].expires_at <= now /\ ~InFlightFor(m))
                 => roles'[m] \cap TIER_ROLE_IDS = {}]_vars

(* C5: when a pass of sync_roles ends, every member in the guild whose     *)
(* row of the pass is active (expires_at > now) holds the role of its tier *)
(* and no other role of ROLE_MAP.  The member whose own role call raised   *)
(* is left out.                                                            *)
C5_PassGrantsExactlyTheTierRole ==
    [][PassEnds =>
          \A m \in inGuild \ (IF spc' = "dead" THEN {scur} ELSE {}) :
              (srows[m] # NoRow /\ srows[m].expires_at > now)
              => roles'[m] \cap RoleMapRoles = {ROLE_MAP[srows[m].tier]}]_vars

(* C6: a failed role call or member lookup never ends the tick while rows  *)
(* of it are left, and never ends the loop.                                *)
C6_FailureIsIsolated ==
    [][/\ TickEnds => equeue = {}
       /\ PassEnds => (squeue = {} /\ spc' # "dead")]_vars

(* C7: expiration_loop deletes a record only when the member holds no tier *)
(* role any more.                                                          *)
C7_ClearOnlyAfterRevocation ==
    [][\A m \in Members :
          (program = "stripe_webhook" /\ subs[m] # NoRow /\ subs'[m] = NoRow)
          => roles'[m] \cap TIER_ROLE_IDS = {}]_vars

(* C8: a verified checkout event without metadata.discord_id is            *)
(* acknowledged, writes no table and issues no role call, at every         *)
(* delivery.                                                               *)
C8_MalformedEventDropped ==
    [][\A h \in Handlers :
          (HandleStep(h) /\ VerifiedCheckout(h) /\ EventMember(h) = NoId)
          => (NoWrite /\ Acknowledged(h))]_vars

(* Both requests delivered the event without discord_id and both were      *)
(* acknowledged.                                                           *)
C8_Witness ==
    /\ program = "stripe_webhook"
    /\ delivered = 2
    /\ \A h \in Handlers :
          hpc[h] = "idle" /\ hresp[h] = [status |-> 200, body |-> "Missing metadata.discord_id"]
    /\ subs = [m \in Members |-> NoRow]

(* C9: a request whose signature verification fails is answered with a     *)
(* 4xx status, writes no table and issues no role call, whatever the event *)
(* it carries.                                                             *)
C9_BadSignatureRejected ==
    [][\A h \in Handlers :
          (HandleStep(h) /\ hreq[h].verify # "ok" /\ (program = "main" => env.whsec))
          => (/\ NoWrite
              /\ hpc'[h] = "idle"
              /\ hresp'[h].status >= 400 /\ hresp'[h].status < 500)]_vars

(* A request with a bad signature that carried an event of another type    *)
(* was answered 400.                                                       *)
C9_Witness ==
    \E h \in Handlers :
        /\ program = "stripe_webhook"
        /\ hpc[h] = "idle"
        /\ hresp[h] = [status |-> 400, body |-> "Invalid signature"]

(* The plan of the event of request h is not in the plan map: the price is *)
(* no key of PRICE_MAP, or the tier has no role id.                        *)
PlanUnmapped(h) ==
    IF program = "main"
    THEN \/ LowerStrip(MainReqEvent(h).tier) \notin {"civilian", "fighter", "elite"}
         \/ env.role_ids[LowerStrip(MainReqEvent(h).tier)] = NoRole
    ELSE ReqEvent(h).price \notin DOMAIN PRICE_MAP

(* The tier of the row the worker is at has no role id. *)
RowUnmapped ==
    \/ WorkerRow.tier \notin {"civilian", "fighter", "elite"}
    \/ env.role_ids[WorkerRow.tier] = NoRole

WriteStep(c) ==
    program = "upsert_subscription" /\ cpc[c] = "write" /\ cpc'[c] = "idle"

(* C11: whatever upsert_subscription and clear_subscription calls have     *)
(* run, and however their statements interleaved, no two rows of the       *)
(* subscriptions table have the same discord_id.                           *)
C11_OneRecordPerMember ==
    \A i, j \in DOMAIN subscriptions :
        subscriptions[i].discord_id = subscriptions[j].discord_id => i = j

(* Two calls for member 1 both found no row; one inserted it and the other *)
(* was refused by the primary key.                                         *)
C11_Witness ==
    /\ program = "upsert_subscription"
    /\ \A c \in Callers :
          cpc[c] = "idle" /\ cargs[c].discord_id = 1 /\ cread[c] = NoRow
    /\ \E c \in Callers : cret[c].raised
    /\ \E c \in Callers : ~cret[c].raised /\ cret[c].new_expires > 0
    /\ Len(subscriptions) = 1

(* C12: the UPDATE of a call that read an active record writes the         *)
(* expires_at it read plus its own days, whatever another call has written *)
(* to the record since the read: the last write wins.                      *)
C12_LastWriteWins ==
    [][\A c \in Callers :
          (WriteStep(c) /\ cread[c] # NoRow /\ cread[c].expires_at > cnow[c]
             /\ SelectRow(subscriptions, cargs[c].discord_id) # NoRow)
          => SelectRow(subscriptions', cargs[c].discord_id).expires_at
                = cread[c].expires_at + cargs[c].days]_vars

(* Member 1 bought 30 days three times on day 0; the last two calls both   *)
(* read expires_at = 30 and both wrote 60, so one purchase of 30 days is   *)
(* lost.                                                                   *)
C12_Witness ==
    /\ program = "upsert_subscription"
    /\ now = 0
    /\ \A c \in Callers :
          /\ cpc[c] = "idle" /\ cargs[c].discord_id = 1 /\ cargs[c].days = 30
          /\ cread[c].expires_at = 30
          /\ cret[c] = [raised |-> FALSE, new_expires |-> 60]
    /\ cpaid[1] = 90
    /\ SelectRow(subscriptions, 1).expires_at = 60


(* The role PRICE_MAP gives to a tier. *)
RoleOfTier(tier) ==
    PRICE_MAP[CHOOSE price \in DOMAIN PRICE_MAP : PRICE_MAP[price].tier = tier].role

(* Member m is in the guild with an active record and without the role of  *)
(* the record's tier, and no request for m is being handled.               *)
Drift(m) ==
    /\ m \in inGuild
    /\ subs[m] # NoRow /\ subs[m].expires_at > now
    /\ RoleOfTier(subs[m].tier) \notin roles[m]
    /\ ~InFlightFor(m)

(* C13: a member in that state is eventually granted the role of the       *)
(* record's tier.  Only records that end before the last day of the model  *)
(* are looked at, so that the whole life of the record is observed.        *)
C13_DriftIsHealed ==
    \A m \in Members, tier \in {"recruit", "elite", "fighter"} :
        (Drift(m) /\ subs[m].tier = tier /\ subs[m].expires_at < MaxNow)
            ~> (RoleOfTier(tier) \in roles[m])

(* C14: at no time do two instances of a sweep or worker loop run. *)
C14_OneLoopInstance == Running <= 1

(* All webhook requests so far were handled one after the other, by the    *)
(* same request slot.                                                      *)
OneHandlerOnly ==
    \E h \in Handlers :
        \A other \in Handlers \ {h} : hpc[other] = "idle" /\ hresp[other] = NoResp

(* Request h is at an await of set_roles_for_tier and returns from it in   *)
(* this step.                                                              *)
SetRolesStep(h) ==
    /\ program = "stripe_webhook"
    /\ hpc[h] \in {"add_verified", "remove_roles", "add_tier"}
    /\ hpc'[h] # hpc[h]

(* C15: a member who holds exactly the tier role that is desired keeps     *)
(* the tier roles unchanged: through every step of set_roles_for_tier for  *)
(* that role (purchases handled one at a time), and through every step of  *)
(* sync_roles while the member's record is active.                         *)
C15_RightRolesUntouched ==
    [][/\ \A h \in Handlers :
             (/\ SetRolesStep(h) /\ OneHandlerOnly
              /\ roles[ReqMember(h)] \cap TIER_ROLE_IDS = {ReqPlan(h).role})
             => roles'[ReqMember(h)] \cap TIER_ROLE_IDS
                   = roles[ReqMember(h)] \cap TIER_ROLE_IDS
       /\ \A m \in Members :
             (/\ program = "tasks_runner"
              /\ subs[m] # NoRow /\ subs[m].expires_at > now
              /\ roles[m] \cap RoleMapRoles = {ROLE_MAP[subs[m].tier]})
             => roles'[m] \cap RoleMapRoles = roles[m] \cap RoleMapRoles]_vars

(* C16: while purchases are handled one at a time, a member holds at most  *)
(* one role of TIER_ROLE_IDS in every state, the states between the awaits *)
(* of set_roles_for_tier included.                                         *)
C16_AtMostOneTierRole ==
    (program = "stripe_webhook" /\ OneHandlerOnly)
    => \A m \in Members : Cardinality(roles[m] \cap TIER_ROLE_IDS) <= 1

(* The upgrade of member 1 from elite to fighter is between its awaits:    *)
(* the elite role is gone and the fighter role is not yet added.           *)
C16_Witness ==
    /\ program = "stripe_webhook"
    /\ OneHandlerOnly
    /\ applied = {"cs_1", "cs_3"}
    /\ \E h \in Handlers :
          /\ hpc[h] = "add_tier" /\ hreq[h].id = "cs_3"
          /\ ROLE_ELITE \in hsnap[h]
    /\ roles[1] = {ROLE_VERIFIED}

(* C17: no step takes ROLE_VERIFIED from a member who holds it. *)
C17_VerifiedNeverRevoked ==
    [][\A m \in Members :
          ROLE_VERIFIED \in roles[m] => ROLE_VERIFIED \in roles'[m]]_vars

(* Member 2's purchase was handled to the end, the record expired and the  *)
(* sweep has revoked the recruit role and cleared the record: the badge is *)
(* all that is left.                                                       *)
C17_Witness ==
    /\ program = "stripe_webhook"
    /\ applied = {"cs_4"}
    /\ \E h \in Handlers : hresp[h] = [status |-> 200, body |-> "received"]
    /\ \A h \in Handlers : hpc[h] = "idle"
    /\ now >= 20
    /\ epc = "sleep"
    /\ subs[2] = NoRow
    /\ roles[2] = {ROLE_VERIFIED}

(* C18: upsert_subscription stores the purchased tier whatever the tier of *)
(* the record was, and a purchase of another tier on an active record      *)
(* keeps the remaining time.                                               *)
C18_TierOverwritten ==
    [][\A h \in Handlers :
          UpsertStep(h)
          => /\ subs'[ReqMember(h)].tier = ReqPlan(h).tier
             /\ (/\ subs[ReqMember(h)] # NoRow
                 /\ subs[ReqMember(h)].tier # ReqPlan(h).tier
                 /\ subs[ReqMember(h)].expires_at > now)
                => subs'[ReqMember(h)].expires_at
                      = subs[ReqMember(h)].expires_at + ReqPlan(h).days]_vars

(* Elite (30 days) bought on day 0 and fighter (60 days) on day 10: the    *)
(* record is a fighter record that expires on day 90.                      *)
C18_Witness ==
    /\ program = "stripe_webhook"
    /\ now = 10
    /\ applied = {"cs_1", "cs_3"}
    /\ subs[1] = [tier |-> "fighter", expires_at |-> 90]

(* C19: when a tick of expiration_loop, or a pass of sync_roles that no    *)
(* exception ended, is over, every member in the guild whose record the    *)
(* sweep read as expired holds no tier role and has no record left.  For   *)
(* expiration_loop the members whose lookup raised, the member of the last *)
(* iteration and members with a purchase in flight are left out.           *)
C19_SweepClearsExpired ==
    [][/\ TickEnds =>
             \A m \in (expired \cap inGuild) \ (efailed \cup {ecur}) :
                 ~InFlightFor(m)
                 => (roles'[m] \cap TIER_ROLE_IDS = {} /\ subs'[m] = NoRow)
       /\ (PassEnds /\ spc' = "sleep") =>
             \A m \in inGuild :
                 (srows[m] # NoRow /\ SyncExpired(srows[m].expires_at, snow))
                 => (roles'[m] \cap RoleMapRoles = {} /\ subs'[m] = NoRow)]_vars

(* The webhook request h of main.py is handled in this step, for a session *)
(* that has its row already.                                               *)
Redelivery(h) ==
    program = "main" /\ HandleStep(h) /\ payments[hreq[h].id] # NoPay

(* C20: a redelivery changes nothing of the payments table but the status  *)
(* of the session's own row, so the table keeps one row per session and a  *)
(* processed row stays processed; and for no session does add_roles        *)
(* succeed twice.                                                          *)
C20_GrantedAtMostOnce ==
    [][/\ \A h \in Handlers :
             Redelivery(h)
             => \E st \in {"paid", "unpaid", "completed"} :
                   payments' = [payments EXCEPT ![hreq[h].id].status = st]
       /\ \A s \in MainEventIds : granted'[s] <= 1]_vars

(* A row of the payments table is marked processed in this step. *)
RowMarked(s) ==
    /\ program = "main"
    /\ payments[s] # NoPay
    /\ ~payments[s].processed
    /\ payments'[s] # NoPay
    /\ payments'[s].processed

C22_AbortsWithoutDatastore ==
    ~env.database_url
    => /\ delivered = 0
       /\ \A h \in Handlers : hpc[h] = "idle" /\ hresp[h] = NoResp
       /\ epc = "sleep" /\ spc = "sleep" /\ wpc = "sleep"

(* C23: a record counts as expired from the moment now = expires_at on, in *)
(* every component: upsert_subscription renews it from now, a tick of      *)
(* expiration_loop reads it as expired, and sync_roles does not give its   *)
(* member the tier role back.                                              *)
C23_SameClassification ==
    [][/\ \A h \in Handlers :
             (UpsertStep(h) /\ subs[ReqMember(h)] # NoRow
                            /\ now >= subs[ReqMember(h)].expires_at)
             => subs'[ReqMember(h)].expires_at = now + ReqPlan(h).days
       /\ (ServiceRuns /\ epc = "sleep" /\ epc' # "sleep")
             => expired' = {m \in Members :
                              subs[m] # NoRow /\ now >= subs[m].expires_at}
       /\ (program = "tasks_runner" /\ spc = "remove_roles"
                                    /\ snow >= srows[scur].expires_at)
             => spc' # "add_roles"]_vars

(* A step of expiration_loop, between the read of a tick and its end. *)
SweepStep == ServiceRuns /\ epc # "sleep" /\ UNCHANGED HandlerVars

(* C24: whenever expiration_loop takes a tier role from a member or        *)
(* deletes a member's record, that record is expired at that moment.       *)
C24_SweepActsOnlyOnExpired ==
    [][\A m \in Members :
          (/\ SweepStep
           /\ \/ (subs[m] # NoRow /\ subs'[m] = NoRow)
              \/ (roles[m] \cap TIER_ROLE_IDS) \ roles'[m] # {})
          => (subs[m] # NoRow /\ subs[m].expires_at <= now)]_vars

(* C25: once two requests that overlapped have both been handled to the    *)
(* end, a member in the guild with an active record holds exactly one tier *)
(* role, the role of the record's tier.                                    *)
C25_InterleavedHandlersOneTierRole ==
    \A m \in Members :
        (/\ program = "stripe_webhook"
         /\ \A h \in Handlers :
               hpc[h] = "idle" /\ hresp[h] = [status |-> 200, body |-> "received"]
         /\ epc = "sleep"
         /\ m \in inGuild
         /\ subs[m] # NoRow /\ subs[m].expires_at > now)
        => roles[m] \cap TIER_ROLE_IDS = {RoleOfTier(subs[m].tier)}

(* process_row returns for the row of session s in this step. *)
RowReturned(s) ==
    /\ WorkerRuns
    /\ wpc \in {"process_row", "fetch_guild", "fetch_member", "add_roles"}
    /\ Head(wrows) = s
    /\ wrows' = Tail(wrows)

(* worker_loop polls in this step. *)
PollStep == WorkerRuns /\ wpc = "sleep" /\ wpc' = "process_row"

(* C26: when process_row returns for a row whose tier maps to a role and   *)
(* the member does not hold that role, the row is left unprocessed; and    *)
(* every poll returns again the rows of the poll before it that are still  *)
(* unprocessed.                                                            *)
C26_FailedRowRetried ==
    [][/\ \A s \in DOMAIN payments :
             (/\ RowReturned(s)
              /\ role_id_for_tier(env, payments[s].tier) # NoRole
              /\ \/ payments[s].discord_id \notin inGuild
                 \/ role_id_for_tier(env, payments[s].tier)
                       \notin roles'[payments[s].discord_id])
             => /\ ~payments'[s].processed
                /\ s \in Unprocessed(payments')
       /\ PollStep =>
             \A s \in wlast : s \in Unprocessed(payments) => s \in wlast']_vars

(* Session cs_2 (fighter) was stored before cs_1 (elite).  A poll of the   *)
(* only worker_loop processed both: the grant for cs_2 failed, cs_1 is     *)
(* processed.  The poll after it has returned cs_2 again.                  *)
C26_Witness ==
    /\ program = "main"
    /\ started = 1
    /\ payments["cs_2"] # NoPay /\ payments["cs_2"].id = 1
    /\ ~payments["cs_2"].processed
    /\ payments["cs_1"] # NoPay /\ payments["cs_1"].id = 2
    /\ payments["cs_1"].processed /\ granted["cs_1"] = 1
    /\ wlast = {"cs_2"}
    /\ wpc = "process_row"

(* The row of session s is unprocessed and paid, its member is in the      *)
(* guild and the role of its tier exists.                                  *)
Processable(s) ==
    /\ s \in Unprocessed(payments)
    /\ payments[s].discord_id \in inGuild
    /\ role_id_for_tier(env, payments[s].tier) \in MainGuildRoles

(* C27: every such row is processed at some time. *)
C27_ProcessableRowIsProcessed ==
    \A s \in MainEventIds :
        Processable(s)
        ~> (payments[s].processed
            /\ role_id_for_tier(env, payments[s].tier)
                  \in roles[payments[s].discord_id])

(* C28: with one worker_loop running, a member of main.py's guild holds at *)
(* most one tier role, the role of the tier bought last.                   *)
C28_OnlyLatestTierRole ==
    (program = "main" /\ started = 1) =>
        \A m \in Members : Cardinality(roles[m] \cap MainGuildRoles) <= 1

----------------------------------------------------------------------------
(* Commands.py, Tasks_runner.py, dp.py: rows without an expiry *)

(* A step of expiry_sweep: the sweep task moves. *)
ExpirySweepStep == CommandsRun /\ bot'["sweep"] # bot["sweep"]

NeverExpires(m) == subs[m] # NoRow /\ subs[m].expires_at = NullExpiry

(* C29: a subscriptions row whose expires_at is NULL never expires: no     *)
(* step of expiry_sweep changes the tier of its member, in users or in     *)
(* subscriptions, and no step of expiry_sweep changes the member's roles.  *)
C29_NullExpiryNeverSwept ==
    [][ExpirySweepStep =>
          \A m \in Members :
              NeverExpires(m) =>
                  /\ users'[m] = users[m]
                  /\ subs'[m] = subs[m]
                  /\ roles'[m] = roles[m]]_vars

(* The sweep has set another member to free while a member whose row has   *)
(* no expiry holds the role of a paid tier.                                *)
C29_Witness ==
    /\ CommandsRun
    /\ bot["sweep"].pc = "send"
    /\ \E m \in Members :
          /\ NeverExpires(m)
          /\ m # bot["sweep"].member
          /\ subs[m].tier \in {"premium", "elite"}
          /\ users[m] = subs[m].tier
          /\ TIER_ROLE_MAP[subs[m].tier] \in roles[m]

----------------------------------------------------------------------------
(* Commands.py, Tasks_runner.py, dp.py: a tier set by an admin *)

(* C30: after an admin has set a member to premium or elite with /set_tier *)
(* while the member's row had no expiry or one that had passed, and the    *)
(* command has returned, an expiry_sweep run that starts, with no expiry   *)
(* recorded for the member since the command, leaves the member's tier in  *)
(* users and in subscriptions as it is and does not put the member among   *)
(* the rows it will set to free.                                           *)
C30_AdminTierSurvivesSweep ==
    [][(ExpirySweepStep /\ bot["sweep"].pc = "idle" /\ bot["cmd"].pc = "idle") =>
          \A m \in badmin :
              /\ users'[m] = users[m]
              /\ subs'[m].tier = subs[m].tier
              /\ m \notin bqueue']_vars

----------------------------------------------------------------------------
(* dp.py: the users table and the subscriptions table *)

(* C31: whatever ensure_user, set_tier and set_subscription_expiry calls   *)
(* have run, a member with a row in users and a row in subscriptions has   *)
(* the same tier in both: get_tier returns the tier of the subscriptions   *)
(* row that expiry_sweep reads.                                            *)
C31_TiersAgree ==
    CommandsRun =>
        \A m \in Members :
            (users[m] # NoUser /\ subs[m] # NoRow) =>
                get_tier(users, m) = subs[m].tier


====
